---- MODULE Spec2Model ----
(***************************************************************************)
(* Stock-Reversal-Flow: the collection pipeline (data_collector.py) and    *)
(* the SQLite store (database.py).                                         *)
(*                                                                         *)
(* A bar carries the columns the pipeline reads or derives: symbol,        *)
(* datetime, timeframe, close and the derived columns.  open/high/low/     *)
(* volume are copied through untouched by every operation and are left     *)
(* out of the row records; they are present in the column sets.            *)
(*                                                                         *)
(* Floating point values are exact rationals [nan, num, den]; NaN compares *)
(* false with everything, as in pandas.  The RSI series comes from the     *)
(* third-party `ta` package: its values are an input of the model (any of  *)
(* RsiLevels after the warm-up rows, NaN on the warm-up rows).  sma_20 and  *)
(* pct_change_5d are written next to the other derived columns and never   *)
(* read by the pipeline: they are in the column sets, not in the rows.     *)
(* The clock counts whole hours.                                           *)
(***************************************************************************)
EXTENDS Integers, Sequences, FiniteSets, TLC

VARIABLES
    stock_data,     \* table stock_data: [cols, pk, rows]
    data_updates,   \* table data_updates: symbol -> last_update (NoMarker when no row)
    now,            \* the wall clock, in ticks
    pc,             \* position of the running entry point
    mode,           \* which entry point runs: "none", "single", "batch", "stale"
    symbols,        \* the list the running collect_all_data iterates
    idx,            \* index in symbols of the symbol being collected
    results,        \* collect_all_data's results dict, as a sequence of <<symbol, bool>>
    df,             \* the DataFrame in flight inside collect_data_for_symbol
    stale,          \* what get_symbols_needing_update returned to update_stale_data
    hours,          \* the hours_threshold update_stale_data was called with
    log,            \* events of the running entry point, oldest first
    outcome,        \* how the last entry point ended: "none", "returned", "raised"
    ind_in,         \* calculate_indicators: the argument of the last direct call
    ind_out,        \* calculate_indicators: its return value
    api_key         \* PolygonDataCollector.api_key, as configured

vars == <<stock_data, data_updates, now, pc, mode, symbols, idx, results, df,
          stale, hours, log, outcome, ind_in, ind_out, api_key>>

----------------------------------------------------------------------------
(* Configuration: config/settings.py *)

WATCHLIST == <<"AAPL", "MSFT">>
RSI_PERIOD == 14
SMA_PERIOD == 20
OVERSOLD_THRESHOLD == 30
MIN_DECLINE_PERCENT == 10
DECLINE_LOOKBACK_DAYS == 10
MsPerSecond == 1000
\* POLYGON_API_KEY when the environment sets none, and a key of an account
PlaceholderKey == "your_api_key_here"
ConfiguredKey == "key"

(* Bounds of the model *)
MaxTime == 1          \* the clock runs 0..MaxTime hours
MaxHours == 1         \* hours_threshold ranges over 0..MaxHours
ShortLen == 2         \* length of the short series a provider returns
ExtraLen == 0         \* the long series has max(RSI_PERIOD, SMA_PERIOD) + ExtraLen bars
MaxIndLen == 22       \* direct calls of calculate_indicators: series of 0..MaxIndLen bars

OtherSymbol == "TEST"                       \* a symbol outside the watchlist
Watched == {WATCHLIST[i] : i \in 1..Len(WATCHLIST)}
Symbols == Watched \cup {OtherSymbol}
\* The closes of a series: HighClose, then a decline of exactly
\* MIN_DECLINE_PERCENT percent or of one percent more
HighClose == 10 * MIN_DECLINE_PERCENT
CloseLevels == {HighClose - MIN_DECLINE_PERCENT - 1, HighClose - MIN_DECLINE_PERCENT}
\* The values ta's RSI takes on the newest row (at the threshold, and below it),
\* and on the rows before it
RsiLevels == {OVERSOLD_THRESHOLD - 1, OVERSOLD_THRESHOLD}
OlderRsi == OVERSOLD_THRESHOLD - 1

----------------------------------------------------------------------------
(* Numbers *)

NaN == [nan |-> TRUE, num |-> 0, den |-> 1]
Num(n) == [nan |-> FALSE, num |-> n, den |-> 1]
Frac(n, d) == [nan |-> FALSE, num |-> n, den |-> d]
\* a < b on floats: false when either side is NaN
Lt(a, b) == ~a.nan /\ ~b.nan /\ a.num * b.den < b.num * a.den
Max(a, b) == IF a >= b THEN a ELSE b
Min(a, b) == IF a <= b THEN a ELSE b
Range(s) == {s[i] : i \in 1..Len(s)}

----------------------------------------------------------------------------
(* Column sets *)

RawCols == {"symbol", "datetime", "timeframe", "open", "high", "low", "close", "volume"}
DerivedCols == {"rsi", "sma_20", "pct_change_5d", "pct_change_10d", "is_oversold"}
SchemaCols == RawCols \cup DerivedCols \cup {"created_at"}

\* _create_tables on a fresh database file
EmptyTable == [cols |-> SchemaCols, pk |-> TRUE, rows |-> <<>>]
NoMarker == -1
NoDf == [cols |-> {}, rows |-> <<>>]

----------------------------------------------------------------------------
(* Generic helpers on sequences *)

\* the [key, val] pair x put into the sorted sequence s, behind every pair whose
\* key is not above its own
RECURSIVE InsertKeyed(_, _)
InsertKeyed(s, x) ==
    IF s = <<>> \/ s[Len(s)].key <= x.key THEN Append(s, x)
    ELSE Append(InsertKeyed(SubSeq(s, 1, Len(s) - 1), x), s[Len(s)])

RECURSIVE SortKeyed(_)
SortKeyed(s) ==
    IF Len(s) <= 1 THEN s
    ELSE InsertKeyed(SortKeyed(SubSeq(s, 1, Len(s) - 1)), s[Len(s)])

Vals(s) == [i \in 1..Len(s) |-> s[i].val]
\* stable sort of s by the integer Key, ascending
SortByKey(s, Key(_)) ==
    Vals(SortKeyed([i \in 1..Len(s) |-> [key |-> Key(s[i]), val |-> s[i]]]))

\* stable sort of s by the strict order Less: the place of s[i] is the number of
\* elements that come before it
Place(s, i, Less(_, _)) ==
    1 + Cardinality({j \in 1..Len(s) :
            Less(s[j], s[i]) \/ (~Less(s[i], s[j]) /\ j < i)})
SortBy(s, Less(_, _)) ==
    [k \in 1..Len(s) |-> s[CHOOSE i \in 1..Len(s) : Place(s, i, Less) = k]]

Filter(s, Keep(_)) == SelectSeq(s, Keep)

Reverse(s) == [i \in 1..Len(s) |-> s[Len(s) + 1 - i]]
Head_n(s, n) == SubSeq(s, 1, Min(n, Len(s)))

----------------------------------------------------------------------------
(* The market-data provider: what one HTTP GET can produce *)

None == [none |-> TRUE]
IsNone(x) == "none" \in DOMAIN x

DropLen == 2     \* the last DropLen bars of a fetched long series close lower

\* the raw aggregate bars of an n-bar series: field t in epoch ms, c the close
\* (the last k bars close at lo, the bars before them at HighClose)
RawBar(i, n, k, lo) ==
    [t |-> i * MsPerSecond, c |-> IF i > n - k THEN lo ELSE HighClose]
RawSeries(n, k, lo) == [i \in 1..n |-> RawBar(i, n, k, lo)]

LongLen == Max(RSI_PERIOD, SMA_PERIOD) + ExtraLen
Shaped(s, shape) ==
    CASE shape = "asc"  -> s
      [] shape = "desc" -> Reverse(s)
      [] shape = "dup"  -> s \o <<s[Len(s)]>>   \* the last timestamp occurs twice

\* the result sets the provider answers with: a short series out of order, and
\* long series in order, with and without a repeated timestamp
ResultSets ==
    {Shaped(RawSeries(ShortLen, 0, HighClose), "desc")}
    \cup {Shaped(RawSeries(LongLen, DropLen, lo), shape) :
             lo \in CloseLevels, shape \in {"asc", "dup"}}
\* a result set whose objects lack the fields t and c
MalformedResults == <<[o |-> HighClose]>>

TransportFailure == [raised |-> TRUE, status_code |-> 0, json |-> None]
HttpError == [raised |-> FALSE, status_code |-> 429, json |-> None]
Ok200(json) == [raised |-> FALSE, status_code |-> 200, json |-> json]
NoResultsField == Ok200([keys |-> {"status"}, results |-> <<>>])
EmptyResults == Ok200([keys |-> {"status", "results"}, results |-> <<>>])
WithResults(rs) == Ok200([keys |-> {"status", "results"}, results |-> rs])

FailureResponses == {TransportFailure, HttpError, NoResultsField, EmptyResults}
GoodResponses == {WithResults(rs) : rs \in ResultSets}
\* what the provider answered, told from the response alone
ResponseKind(resp) ==
    IF resp.raised THEN "transport failure"
    ELSE IF resp.status_code # 200 THEN "http error"
    ELSE IF "results" \notin resp.json.keys THEN "no results field"
    ELSE IF resp.json.results = <<>> THEN "empty results"
    ELSE "results"
FailureKinds == {"transport failure", "http error", "no results field", "empty results"}

Responses == FailureResponses \cup GoodResponses \cup {WithResults(MalformedResults)}

----------------------------------------------------------------------------
(* PolygonDataCollector: the pure parts *)

\* _make_request: the parsed JSON, or None
make_request(resp) ==
    IF resp.raised THEN None
    ELSE IF resp.status_code = 200 THEN resp.json
    ELSE None

\* strftime('%Y-%m-%d %H:%M:%S') of to_datetime(t, unit='ms'): whole seconds
FormatDatetime(t) == t \div MsPerSecond

Raise == [tag |-> "raise"]
NoData == [tag |-> "none"]
Frame(d) == [tag |-> "df", df |-> d]

\* (fetch_daily_data without its df.empty test)
fetch_daily_data_no_empty_test(symbol, resp) ==
    LET data == make_request(resp) IN
    IF IsNone(data) \/ "results" \notin data.keys THEN NoData
    ELSE IF \A i \in 1..Len(data.results) : "t" \notin DOMAIN data.results[i]
         THEN Raise
    ELSE Frame([cols |-> RawCols,
                rows |-> [i \in 1..Len(data.results) |->
                            [symbol |-> symbol,
                             datetime |-> FormatDatetime(data.results[i].t),
                             timeframe |-> "daily",
                             close |-> data.results[i].c]]])

\* fetch_daily_data: None, a DataFrame, or an uncaught KeyError
fetch_daily_data(symbol, resp) ==
    LET data == make_request(resp) IN
    IF IsNone(data) \/ "results" \notin data.keys THEN NoData
    ELSE IF data.results = <<>> THEN NoData
    ELSE IF \A i \in 1..Len(data.results) : "t" \notin DOMAIN data.results[i]
         THEN Raise
    ELSE Frame([cols |-> RawCols,
                rows |-> [i \in 1..Len(data.results) |->
                            [symbol |-> symbol,
                             datetime |-> FormatDatetime(data.results[i].t),
                             timeframe |-> "daily",
                             close |-> data.results[i].c]]])

\* ta.momentum.RSIIndicator(...).rsi() on n rows: NaN on the warm-up rows, and
\* after them the values the package computes (old, and last on the newest row)
RSIIndicator(n, last) ==
    [i \in 1..n |-> IF i < RSI_PERIOD THEN NaN
                    ELSE IF i = n THEN Num(last) ELSE Num(OlderRsi)]

\* Series.pct_change(periods) * 100
pct_change(rows, i, periods) ==
    IF i <= periods THEN NaN
    ELSE Frac(100 * (rows[i].close - rows[i - periods].close), rows[i - periods].close)

\* ((rsi < OVERSOLD_THRESHOLD) & (pct_change_10d < -MIN_DECLINE_PERCENT)).astype(int)
\* (the flag with rsi <= OVERSOLD_THRESHOLD)
IsOversold_le(rsi, pct10) ==
    IF ~rsi.nan /\ ~Lt(Num(OVERSOLD_THRESHOLD), rsi) /\ Lt(pct10, Num(-MIN_DECLINE_PERCENT))
    THEN 1 ELSE 0
IsOversold(rsi, pct10) ==
    IF Lt(rsi, Num(OVERSOLD_THRESHOLD)) /\ Lt(pct10, Num(-MIN_DECLINE_PERCENT))
    THEN 1 ELSE 0

Datetime(r) == r.datetime

\* (the guard with min in the place of max)
TooShort_min(d) == Len(d.rows) = 0 \/ Len(d.rows) < Min(RSI_PERIOD, SMA_PERIOD)
TooShort(d) == Len(d.rows) = 0 \/ Len(d.rows) < Max(RSI_PERIOD, SMA_PERIOD)

\* the derived columns of the rows, already sorted, given ta's RSI series
WithIndicators(sorted, rsi) ==
    [i \in 1..Len(sorted) |->
        LET pct10 == pct_change(sorted, i, DECLINE_LOOKBACK_DAYS) IN
        [symbol |-> sorted[i].symbol,
         datetime |-> sorted[i].datetime,
         timeframe |-> sorted[i].timeframe,
         close |-> sorted[i].close,
         rsi |-> rsi[i],
         pct_change_10d |-> pct10,
         is_oversold |-> IsOversold(rsi[i], pct10)]]

\* calculate_indicators; last is the RSI value ta returns for the newest row
calculate_indicators(d, last) ==
    IF TooShort(d) THEN d
    ELSE [cols |-> d.cols \cup DerivedCols,
          rows |-> WithIndicators(SortByKey(d.rows, Datetime),
                                  RSIIndicator(Len(d.rows), last))]

----------------------------------------------------------------------------
(* StockDatabase: the queries, as functions of the table *)

QueryError == [error |-> TRUE, rows |-> <<>>]
QueryRows(rows) == [error |-> FALSE, rows |-> rows]

SymbolOrder == <<"AAPL", "MSFT", "TEST">>     \* the symbols in string order
SymbolRank(s) == CHOOSE i \in 1..Len(SymbolOrder) : SymbolOrder[i] = s

\* SELECT MAX(s2.datetime) FROM stock_data s2 WHERE s2.symbol = .. AND s2.timeframe = ..
MaxDatetime(t, symbol, timeframe) ==
    LET ds == {t.rows[i].datetime : i \in {j \in 1..Len(t.rows) :
                    t.rows[j].symbol = symbol /\ t.rows[j].timeframe = timeframe}}
    IN CHOOSE d \in ds : \A e \in ds : e <= d

IsLatest(t, r) == r.datetime = MaxDatetime(t, r.symbol, r.timeframe)

\* (get_stock_data with ORDER BY datetime ASC)
get_stock_data_asc(t, symbol, timeframe, limit) ==
    LET Mine(r) == r.symbol = symbol /\ r.timeframe = timeframe
        ordered == SortByKey(Filter(t.rows, Mine), Datetime)
    IN QueryRows(IF limit # 0 THEN Head_n(ordered, limit) ELSE ordered)

\* get_stock_data; limit 0 stands for None (and for 0: "if limit" is false for both)
get_stock_data(t, symbol, timeframe, limit) ==
    LET Mine(r) == r.symbol = symbol /\ r.timeframe = timeframe
        Descending(r) == -r.datetime
        ordered == SortByKey(Filter(t.rows, Mine), Descending)
    IN QueryRows(IF limit # 0 THEN Head_n(ordered, limit) ELSE ordered)

\* get_all_latest_data
get_all_latest_data(t, timeframe) ==
    LET Latest(r) == r.timeframe = timeframe /\ IsLatest(t, r)
        BySymbol(r) == SymbolRank(r.symbol)
    IN QueryRows(SortByKey(Filter(t.rows, Latest), BySymbol))

\* get_oversold_stocks: the statement names the columns is_oversold and rsi, and
\* fails (sqlite3.OperationalError: no such column) on a table without them
get_oversold_stocks(t, timeframe) ==
    IF ~({"is_oversold", "rsi"} \subseteq t.cols) THEN QueryError
    ELSE LET Hit(r) == r.timeframe = timeframe /\ r.is_oversold = 1 /\ IsLatest(t, r)
             \* ORDER BY rsi ASC: NULL sorts first
             ByRsi(a, b) == (a.rsi.nan /\ ~b.rsi.nan) \/ Lt(a.rsi, b.rsi)
         IN QueryRows(SortBy(Filter(t.rows, Hit), ByRsi))

\* get_symbols_needing_update: the watchlist symbols that have no row in
\* data_updates or whose last_update is before now - hours_threshold hours
\* (the comparison with <= in the place of <)
NeedsUpdate_le(upd, s, clock, hours_threshold) ==
    upd[s] = NoMarker \/ upd[s] <= clock - hours_threshold
NeedsUpdate(upd, s, clock, hours_threshold) ==
    upd[s] = NoMarker \/ upd[s] < clock - hours_threshold
get_symbols_needing_update(upd, clock, hours_threshold) ==
    LET Due(s) == NeedsUpdate(upd, s, clock, hours_threshold)
    IN Filter(WATCHLIST, Due)

----------------------------------------------------------------------------
(* The state machine *)

Event(kind, s) == [ev |-> kind, symbol |-> s, answer |-> "-"]
\* the GET for s, with what the provider answered
GetEvent(s, resp) == [ev |-> "get", symbol |-> s, answer |-> ResponseKind(resp)]
Current == symbols[idx]

Init ==
    /\ stock_data = EmptyTable
    /\ data_updates = [s \in Symbols |-> NoMarker]
    /\ now = 0
    /\ pc = "idle"
    /\ mode = "none"
    /\ symbols = <<>>
    /\ idx = 0
    /\ results = <<>>
    /\ df = NoDf
    /\ stale = <<>>
    /\ hours = 0
    /\ log = <<>>
    /\ outcome = "none"
    /\ ind_in = NoDf
    /\ ind_out = NoData
    /\ api_key = ConfiguredKey

\* an hour passes between two calls
Tick ==
    /\ pc = "idle"
    /\ now < MaxTime
    /\ now' = now + 1
    /\ UNCHANGED <<stock_data, data_updates, pc, mode, symbols, idx, results, df,
                   stale, hours, log, outcome, ind_in, ind_out, api_key>>

\* the loop of collect_all_data starts on the list syms
StartLoop(m, syms) ==
    /\ mode' = m
    /\ symbols' = syms
    /\ results' = <<>>
    /\ df' = NoDf
    /\ log' = <<>>
    /\ IF syms = <<>>
       THEN /\ pc' = "done"
            /\ outcome' = "returned"
            /\ idx' = 0
       ELSE /\ pc' = "fetch"
            /\ outcome' = "none"
            /\ idx' = 1
    /\ UNCHANGED <<stock_data, data_updates, now, ind_in, ind_out, api_key>>

\* collect_data_for_symbol(s), called directly
CallCollectSymbol ==
    /\ pc = "idle"
    /\ \E s \in Watched : StartLoop("single", <<s>>)
    /\ stale' = <<>>
    /\ hours' = 0

\* collect_all_data(): symbols is None, the watchlist is collected
CallCollectAll ==
    /\ pc = "idle"
    /\ StartLoop("batch", WATCHLIST)
    /\ stale' = <<>>
    /\ hours' = 0

\* (update_stale_data that collects the whole watchlist)
CallUpdateStale_all ==
    /\ pc = "idle"
    /\ \E h \in 0..MaxHours :
         /\ stale' = get_symbols_needing_update(data_updates, now, h)
         /\ hours' = h
         /\ StartLoop("stale", WATCHLIST)

\* update_stale_data(hours_threshold): returns {} without calling collect_all_data
\* when nothing is stale
CallUpdateStale ==
    /\ pc = "idle"
    /\ \E h \in 0..MaxHours :
         LET due == get_symbols_needing_update(data_updates, now, h) IN
         /\ stale' = due
         /\ hours' = h
         /\ StartLoop("stale", due)

\* (a loop that calls collect_data_for_symbol again after a failed fetch, once)
FinishSymbol_retry(ok) ==
    IF ~ok /\ \A i \in 1..Len(log) : ~(log[i].ev = "get" /\ log[i].symbol = Current)
    THEN /\ results' = results
         /\ df' = NoDf
         /\ idx' = idx
         /\ pc' = "fetch"
         /\ outcome' = "none"
    ELSE /\ results' = Append(results, <<Current, ok>>)
         /\ df' = NoDf
         /\ IF idx < Len(symbols)
            THEN /\ idx' = idx + 1
                 /\ pc' = "fetch"
                 /\ outcome' = "none"
            ELSE /\ idx' = idx
                 /\ pc' = "done"
                 /\ outcome' = "returned"

\* collect_data_for_symbol returns ok: the loop stores it and goes on
FinishSymbol(ok) ==
    /\ results' = Append(results, <<Current, ok>>)
    /\ df' = NoDf
    /\ IF idx < Len(symbols)
       THEN /\ idx' = idx + 1
            /\ pc' = "fetch"
            /\ outcome' = "none"
       ELSE /\ idx' = idx
            /\ pc' = "done"
            /\ outcome' = "returned"

\* the events of one _make_request: the GET, and the sleep when the GET returned
RequestEvents(s, resp) ==
    <<GetEvent(s, resp)>> \o (IF resp.raised THEN <<>> ELSE <<Event("sleep", s)>>)

\* fetch_daily_data returns None: collect_data_for_symbol returns False
FetchNoData ==
    /\ pc = "fetch"
    /\ \E resp \in Responses :
         /\ fetch_daily_data(Current, resp) = NoData
         /\ log' = log \o RequestEvents(Current, resp)
    /\ FinishSymbol(FALSE)
    /\ UNCHANGED <<stock_data, data_updates, now, mode, symbols, stale, hours, ind_in, ind_out, api_key>>

\* fetch_daily_data raises: nothing between it and the caller of the entry point
\* catches the exception
FetchRaises ==
    /\ pc = "fetch"
    /\ \E resp \in Responses :
         /\ fetch_daily_data(Current, resp) = Raise
         /\ log' = log \o RequestEvents(Current, resp)
    /\ pc' = "done"
    /\ outcome' = "raised"
    /\ UNCHANGED <<stock_data, data_updates, now, mode, symbols, idx, results, df,
                   stale, hours, ind_in, ind_out, api_key>>

\* fetch_daily_data returns a DataFrame; calculate_indicators runs on it
FetchData ==
    /\ pc = "fetch"
    /\ \E resp \in Responses, last \in RsiLevels :
         \E r \in {fetch_daily_data(Current, resp)} :
            /\ r.tag = "df"
            /\ df' = calculate_indicators(r.df, last)
            /\ log' = log \o RequestEvents(Current, resp)
    /\ pc' = "insert"
    /\ UNCHANGED <<stock_data, data_updates, now, mode, symbols, idx, results,
                   stale, hours, outcome, ind_in, ind_out, api_key>>

\* insert_stock_data raises before it changed the table
InsertFailsEarly ==
    /\ pc = "insert"
    /\ log' = Append(log, Event("insert_failed", Current))
    /\ FinishSymbol(FALSE)
    /\ UNCHANGED <<stock_data, data_updates, now, mode, symbols, stale, hours, ind_in, ind_out, api_key>>

\* to_sql(if_exists='replace'): DROP TABLE and CREATE TABLE with the frame's columns
ReplacedTable(t, d) == [cols |-> d.cols, pk |-> FALSE, rows |-> <<>>]
InsertReplace ==
    /\ pc = "insert"
    /\ stock_data' = ReplacedTable(stock_data, df)
    /\ log' = Append(log, Event("replace", Current))
    /\ pc' = "rows"
    /\ UNCHANGED <<data_updates, now, mode, symbols, idx, results, df, stale,
                   hours, outcome, ind_in, ind_out, api_key>>

\* to_sql: the INSERT of the frame's rows, committed
InsertedRows(t, d) == [t EXCEPT !.rows = t.rows \o d.rows]
InsertRows ==
    /\ pc = "rows"
    /\ stock_data' = InsertedRows(stock_data, df)
    /\ log' = Append(log, Event("insert", Current))
    /\ pc' = "mark"
    /\ UNCHANGED <<data_updates, now, mode, symbols, idx, results, df, stale,
                   hours, outcome, ind_in, ind_out, api_key>>

\* to_sql: the INSERT raises and is rolled back; the new table stays empty
InsertRowsFail ==
    /\ pc = "rows"
    /\ log' = Append(log, Event("insert_failed", Current))
    /\ FinishSymbol(FALSE)
    /\ UNCHANGED <<stock_data, data_updates, now, mode, symbols, stale, hours, ind_in, ind_out, api_key>>

\* (update_last_fetch_time without its WHERE symbol: every row gets the timestamp)
update_last_fetch_time_all(u, s, clock) == [x \in DOMAIN u |-> clock]
\* update_last_fetch_time: INSERT OR REPLACE ... CURRENT_TIMESTAMP
update_last_fetch_time(u, s, clock) == [u EXCEPT ![s] = clock]
MarkUpdated ==
    /\ pc = "mark"
    /\ data_updates' = update_last_fetch_time(data_updates, Current, now)
    /\ log' = Append(log, Event("mark", Current))
    /\ FinishSymbol(TRUE)
    /\ UNCHANGED <<stock_data, now, mode, symbols, stale, hours, ind_in, ind_out, api_key>>

\* update_last_fetch_time raises
MarkFails ==
    /\ pc = "mark"
    /\ log' = Append(log, Event("mark_failed", Current))
    /\ FinishSymbol(FALSE)
    /\ UNCHANGED <<stock_data, data_updates, now, mode, symbols, stale, hours, ind_in, ind_out, api_key>>

\* the entry point has ended; the process is ready for the next call
Return ==
    /\ pc = "done"
    /\ pc' = "idle"
    /\ mode' = "none"
    /\ symbols' = <<>>
    /\ idx' = 0
    /\ results' = <<>>
    /\ df' = NoDf
    /\ stale' = <<>>
    /\ hours' = 0
    /\ log' = <<>>
    /\ outcome' = "none"
    /\ UNCHANGED <<stock_data, data_updates, now, ind_in, ind_out, api_key>>

Next ==
    \/ Tick
    \/ CallCollectSymbol
    \/ CallCollectAll
    \/ CallUpdateStale
    \/ FetchNoData
    \/ FetchRaises
    \/ FetchData
    \/ InsertFailsEarly
    \/ InsertReplace
    \/ InsertRows
    \/ InsertRowsFail
    \/ MarkUpdated
    \/ MarkFails
    \/ Return

Spec == Init /\ [][Next]_vars

----------------------------------------------------------------------------
(* calculate_indicators called on its own, on series of every length up to      *)
(* MaxIndLen: the last k bars close lower, in provider order or reversed        *)

RawFrame(rs) ==
    IF rs = <<>> THEN [cols |-> RawCols, rows |-> <<>>]
    ELSE fetch_daily_data(OtherSymbol, WithResults(rs)).df

IndFrames ==
    {RawFrame(Shaped(RawSeries(nk[1], nk[2], lo), shape)) :
        nk \in {p \in (0..MaxIndLen) \X (0..MaxIndLen) : p[2] <= p[1]},
        lo \in CloseLevels, shape \in {"asc", "desc"}}

IndInit ==
    /\ stock_data = EmptyTable
    /\ data_updates = [s \in Symbols |-> NoMarker]
    /\ now = 0
    /\ pc = "idle"
    /\ mode = "none"
    /\ symbols = <<>>
    /\ idx = 0
    /\ results = <<>>
    /\ df = NoDf
    /\ stale = <<>>
    /\ hours = 0
    /\ log = <<>>
    /\ outcome = "none"
    /\ ind_in \in IndFrames
    /\ ind_out = NoData
    /\ api_key = ConfiguredKey

\* df = calculate_indicators(df)
IndCall ==
    /\ ind_out = NoData
    /\ \E last \in RsiLevels : ind_out' = Frame(calculate_indicators(ind_in, last))
    /\ UNCHANGED <<stock_data, data_updates, now, pc, mode, symbols, idx, results,
                   df, stale, hours, log, outcome, ind_in, api_key>>

\* the frame a first call returned is passed to a second call
IndAgain ==
    /\ ind_out # NoData
    /\ ind_in.cols = RawCols
    /\ ind_in' = ind_out.df
    /\ ind_out' = NoData
    /\ UNCHANGED <<stock_data, data_updates, now, pc, mode, symbols, idx, results,
                   df, stale, hours, log, outcome, api_key>>

IndNext == IndCall \/ IndAgain

SpecInd == IndInit /\ [][IndNext]_vars

----------------------------------------------------------------------------
(* StockDatabase's staleness markers called on their own *)

MaxDbTime == 3     \* the clock of SpecDb runs 0..MaxDbTime hours

DbTick ==
    /\ now < MaxDbTime
    /\ now' = now + 1
    /\ UNCHANGED <<stock_data, data_updates, pc, mode, symbols, idx, results, df,
                   stale, hours, log, outcome, ind_in, ind_out, api_key>>

\* db.update_last_fetch_time(s)
DbMarkUpdated ==
    /\ \E s \in Symbols : data_updates' = update_last_fetch_time(data_updates, s, now)
    /\ UNCHANGED <<stock_data, now, pc, mode, symbols, idx, results, df,
                   stale, hours, log, outcome, ind_in, ind_out, api_key>>

DbNext == DbTick \/ DbMarkUpdated

SpecDb == Init /\ [][DbNext]_vars

----------------------------------------------------------------------------
(* The dashboard's Individual Stock tab: dashboard.py *)

LoadLimit == 100        \* load_stock_data(symbol, limit=100)

\* load_stock_data: the rows of db.get_stock_data(symbol, limit=limit), and an
\* empty frame when the query raised
load_stock_data(t, symbol) ==
    LET q == get_stock_data(t, symbol, "daily", LoadLimit)
    IN IF q.error THEN <<>> ELSE q.rows

\* latest = df.iloc[-1]: the last row of the frame
iloc_last(d) == d[Len(d)]

----------------------------------------------------------------------------
(* The entry points that start a collection: the collection command            *)
(* (data_collector.main, which collect_data.py runs) and the dashboard's       *)
(* Refresh Data button.  The key is whatever the environment configured.       *)

ApiKeys == {PlaceholderKey, ConfiguredKey}
RefreshHours == 1       \* update_stale_data(hours_threshold=1)

EntryInit ==
    /\ stock_data = EmptyTable
    /\ data_updates = [s \in Symbols |-> NoMarker]
    /\ now = 0
    /\ pc = "idle"
    /\ mode = "none"
    /\ symbols = <<>>
    /\ idx = 0
    /\ results = <<>>
    /\ df = NoDf
    /\ stale = <<>>
    /\ hours = 0
    /\ log = <<>>
    /\ outcome = "none"
    /\ ind_in = NoDf
    /\ ind_out = NoData
    /\ api_key \in ApiKeys

\* data_collector.main(): prints the configuration message and returns when the
\* key is the placeholder, and collects the watchlist otherwise
main ==
    /\ pc = "idle"
    /\ stale' = <<>>
    /\ hours' = 0
    /\ IF api_key = PlaceholderKey
       THEN /\ mode' = "main"
            /\ symbols' = <<>>
            /\ idx' = 0
            /\ results' = <<>>
            /\ df' = NoDf
            /\ log' = <<Event("configuration error", "-")>>
            /\ pc' = "done"
            /\ outcome' = "returned"
            /\ UNCHANGED <<stock_data, data_updates, now, ind_in, ind_out, api_key>>
       ELSE StartLoop("batch", WATCHLIST)

\* the Refresh Data button: collector.update_stale_data(hours_threshold=1)
RefreshData ==
    /\ pc = "idle"
    /\ LET due == get_symbols_needing_update(data_updates, now, RefreshHours) IN
         /\ stale' = due
         /\ hours' = RefreshHours
         /\ StartLoop("stale", due)

EntryNext ==
    \/ Tick
    \/ main
    \/ RefreshData
    \/ FetchNoData
    \/ FetchRaises
    \/ FetchData
    \/ InsertFailsEarly
    \/ InsertReplace
    \/ InsertRows
    \/ InsertRowsFail
    \/ MarkUpdated
    \/ MarkFails
    \/ Return

SpecEntry == EntryInit /\ [][EntryNext]_vars

----------------------------------------------------------------------------
(* The pipeline on a store whose writes all succeed: insert_stock_data and      *)
(* update_last_fetch_time never raise; the provider may still fail              *)

NoFailNext ==
    \/ Tick
    \/ CallCollectSymbol
    \/ CallCollectAll
    \/ CallUpdateStale
    \/ FetchNoData
    \/ FetchRaises
    \/ FetchData
    \/ InsertReplace
    \/ InsertRows
    \/ MarkUpdated
    \/ Return

SpecNoFail == Init /\ [][NoFailNext]_vars

----------------------------------------------------------------------------
(* Properties *)

MaxLimit == 3      \* get_stock_data is asked with limit None and 1..MaxLimit

RowsOf(t, s) == LET Mine(r) == r.symbol = s IN Filter(t.rows, Mine)
Keys(res) == [i \in 1..Len(res) |-> res[i][1]]
Times(rows, r) == Cardinality({i \in 1..Len(rows) : rows[i] = r})
\* the GET of the running entry point for symbol s was answered with kind
Answered(s, kind) ==
    \E i \in 1..Len(log) : log[i].ev = "get" /\ log[i].symbol = s /\ log[i].answer = kind

\* C1: a batch (collect_all_data, also under update_stale_data) always ends by
\* returning, with one entry per symbol of its list, in list order: no failure of
\* one symbol aborts it.
C1_BatchNeverAborts ==
    (pc = "done" /\ mode \in {"batch", "stale"}) =>
        (outcome = "returned" /\ Keys(results) = symbols)

\* C2: after a batch has returned, every symbol whose entry is true has its rows
\* in stock_data: collecting another symbol did not remove them.
C2_SucceededSymbolsKeepRows ==
    (pc = "done" /\ outcome = "returned") =>
        \A i \in 1..Len(results) :
            results[i][2] => RowsOf(stock_data, results[i][1]) # <<>>

\* C3: a step in which the provider answers the current symbol with a non-success
\* status, a transport failure, a body without results or an empty result set
\* records failure for the symbol, raises nothing and leaves stock_data and
\* data_updates as they were.
C3_FailedFetchChangesNothing ==
    [][(/\ pc = "fetch"
        /\ Len(log') > Len(log)
        /\ log'[Len(log) + 1].ev = "get"
        /\ log'[Len(log) + 1].answer \in FailureKinds)
       => (/\ stock_data' = stock_data
           /\ data_updates' = data_updates
           /\ outcome' # "raised"
           /\ results' = Append(results, <<Current, FALSE>>))]_vars

\* a collection of a symbol failed on an empty result set while the symbol had
\* stored rows and a marker, and they are still there
C3_Witness ==
    /\ pc = "done"
    /\ \E i \in 1..Len(results) :
          /\ ~results[i][2]
          /\ Answered(results[i][1], "empty results")
          /\ RowsOf(stock_data, results[i][1]) # <<>>
          /\ data_updates[results[i][1]] # NoMarker

\* C4: right after insert_stock_data(df) returned, get_stock_data for df's symbol
\* returns rows of that symbol only, newest first; without a limit each written
\* row as often as it was written, and with a limit n the n newest of them.
C4_HistoryIsWhatWasWritten ==
    pc = "mark" =>
        \A limit \in 0..MaxLimit :
            LET q == get_stock_data(stock_data, Current, "daily", limit)
                got == q.rows
            IN /\ ~q.error
               /\ \A i \in 1..Len(got) :
                    got[i].symbol = Current /\ got[i].timeframe = "daily"
               /\ \A i \in 1..Len(got) - 1 : got[i].datetime >= got[i + 1].datetime
               /\ \A i \in 1..Len(got) : Times(got, got[i]) <= Times(df.rows, got[i])
               /\ Len(got) = IF limit = 0 THEN Len(df.rows) ELSE Min(limit, Len(df.rows))
               /\ \A i \in 1..Len(df.rows) :
                    Times(got, df.rows[i]) < Times(df.rows, df.rows[i]) =>
                        \A j \in 1..Len(got) : got[j].datetime >= df.rows[i].datetime

\* more rows than the limit were written, oldest first
C4_Witness ==
    /\ pc = "mark"
    /\ Len(df.rows) > MaxLimit
    /\ df.rows[1].datetime < df.rows[2].datetime
    /\ stock_data.rows = df.rows

\* the rows of symbol s that carry its greatest datetime
LatestRows(t, s) ==
    LET Newest(r) == r.symbol = s /\ r.timeframe = "daily" /\ IsLatest(t, r)
    IN Filter(t.rows, Newest)
SymbolTimes(rows, s) == Cardinality({i \in 1..Len(rows) : rows[i].symbol = s})

\* C5: when get_oversold_stocks answers, it returns a symbol exactly when the
\* symbol's most recent stored bar has is_oversold = 1, one row per symbol at
\* most, every row flagged, ordered by rsi ascending.
C5_OversoldIsLatestFlagged ==
    LET q == get_oversold_stocks(stock_data, "daily") IN
    ~q.error =>
        /\ \A s \in Symbols :
             /\ SymbolTimes(q.rows, s) <= 1
             /\ (SymbolTimes(q.rows, s) > 0) <=>
                    (\E i \in 1..Len(LatestRows(stock_data, s)) :
                        LatestRows(stock_data, s)[i].is_oversold = 1)
        /\ \A i \in 1..Len(q.rows) : q.rows[i].is_oversold = 1
        /\ \A i \in 1..Len(q.rows) - 1 : ~Lt(q.rows[i + 1].rsi, q.rows[i].rsi)

\* C6: get_all_latest_data returns one row for every symbol that has rows, none
\* for a symbol that has none, and the row carries the symbol's greatest datetime.
C6_OneLatestRowPerSymbol ==
    LET q == get_all_latest_data(stock_data, "daily") IN
    /\ ~q.error
    /\ \A s \in Symbols :
          SymbolTimes(q.rows, s) = IF RowsOf(stock_data, s) # <<>> THEN 1 ELSE 0
    /\ \A i \in 1..Len(q.rows) :
          \A j \in 1..Len(stock_data.rows) :
             stock_data.rows[j].symbol = q.rows[i].symbol =>
                stock_data.rows[j].datetime <= q.rows[i].datetime

\* C7: for every threshold h, get_symbols_needing_update(h) is the watchlist
\* symbols, each once and in watchlist order, that have no marker or whose marker
\* is more than h hours old; a symbol marked less than h hours ago is left out.
C7_StaleIsUnmarkedOrOld ==
    \A h \in 0..MaxHours :
        LET due == get_symbols_needing_update(data_updates, now, h) IN
        /\ Range(due) = {s \in Watched :
                            data_updates[s] = NoMarker \/ now - data_updates[s] > h}
        /\ \A i \in 1..Len(due), j \in 1..Len(due) :
              i < j => \E a \in 1..Len(WATCHLIST), b \in 1..Len(WATCHLIST) :
                          a < b /\ WATCHLIST[a] = due[i] /\ WATCHLIST[b] = due[j]

\* with a threshold of one hour: a watched symbol marked more than an hour ago
\* is due again, one marked within the hour is not, and a marked symbol outside
\* the watchlist is never due
C7_Witness ==
    /\ MaxHours >= 1
    /\ \E a \in Watched, b \in Watched :
          /\ data_updates[a] # NoMarker /\ now - data_updates[a] > 1
          /\ data_updates[b] # NoMarker /\ now - data_updates[b] <= 1
          /\ get_symbols_needing_update(data_updates, now, 1) = <<a>>
    /\ data_updates[OtherSymbol] # NoMarker

\* C8: update_stale_data(h) iterates exactly what get_symbols_needing_update(h)
\* returned when it was called; every event of the run is for one of those
\* symbols, the returned map has exactly those keys, and with nothing stale the
\* call returns the empty map at once, with no event at all.
C8_RunInvariant ==
    mode = "stale" =>
        /\ symbols = stale
        /\ \A i \in 1..Len(log) : log[i].symbol \in Range(stale)
        /\ (pc = "done" /\ outcome = "returned") => Keys(results) = stale
        /\ stale = <<>> =>
              (pc = "done" /\ outcome = "returned" /\ log = <<>> /\ results = <<>>)
C8_CallStep ==
    (pc = "idle" /\ mode' = "stale") =>
        /\ symbols' = get_symbols_needing_update(data_updates, now, hours')
        /\ stock_data' = stock_data
        /\ data_updates' = data_updates
C8_OnlyStaleCollected == []C8_RunInvariant /\ [][C8_CallStep]_vars

\* update_stale_data returned a map for one stale symbol of a watchlist of two,
\* after a network call for it
C8_Witness ==
    /\ mode = "stale"
    /\ pc = "done"
    /\ outcome = "returned"
    /\ Len(stale) = 1
    /\ Len(results) = 1
    /\ Len(log) > 0

\* C9: on a series of at least max(RSI_PERIOD, SMA_PERIOD) bars, every row
\* calculate_indicators returns has is_oversold = 1 exactly when its rsi is
\* present and below OVERSOLD_THRESHOLD and its pct_change_10d is present and
\* below -MIN_DECLINE_PERCENT, where pct_change_10d is the change of the close
\* against the close DECLINE_LOOKBACK_DAYS rows earlier; the flag comes from the
\* values of this call, whatever flag the row carried in the input.
C9_FlagIffBothBelow ==
    (ind_out # NoData /\ Len(ind_in.rows) >= Max(RSI_PERIOD, SMA_PERIOD)) =>
        LET rows == ind_out.df.rows IN
        \A i \in 1..Len(rows) :
            LET r == rows[i]
                rsiBelow == ~r.rsi.nan /\ r.rsi.num < OVERSOLD_THRESHOLD * r.rsi.den
                declined ==
                    /\ i > DECLINE_LOOKBACK_DAYS
                    /\ 100 * (r.close - rows[i - DECLINE_LOOKBACK_DAYS].close)
                          < -MIN_DECLINE_PERCENT * rows[i - DECLINE_LOOKBACK_DAYS].close
            IN /\ r.is_oversold = IF rsiBelow /\ declined THEN 1 ELSE 0
               /\ r.pct_change_10d.nan <=> i <= DECLINE_LOOKBACK_DAYS

\* a second call on rows that carried is_oversold = 1 returns one of them with 0,
\* and another row with 1
C9_Witness ==
    /\ ind_out # NoData
    /\ "is_oversold" \in ind_in.cols
    /\ \E i \in 1..Len(ind_in.rows) :
          ind_in.rows[i].is_oversold = 1 /\ ind_out.df.rows[i].is_oversold = 0
    /\ \E i \in 1..Len(ind_in.rows) : ind_out.df.rows[i].is_oversold = 1

\* C10: on a series of fewer than max(RSI_PERIOD, SMA_PERIOD) bars, the empty one
\* included, calculate_indicators returns its argument: the same rows in the same
\* order and the same columns.
C10_ShortSeriesUnchanged ==
    (ind_out # NoData /\ Len(ind_in.rows) < Max(RSI_PERIOD, SMA_PERIOD)) =>
        ind_out = Frame(ind_in)

\* a series one bar short of the longer window, newest bar first, came back as is
C10_Witness ==
    /\ ind_out = Frame(ind_in)
    /\ Len(ind_in.rows) = Max(RSI_PERIOD, SMA_PERIOD) - 1
    /\ ind_in.rows[1].datetime > ind_in.rows[2].datetime
    /\ ind_in.cols = RawCols

\* the row r carries every derived column the model keeps in rows
FullShape(r) == {"rsi", "pct_change_10d", "is_oversold"} \subseteq DOMAIN r

\* C11: between collections, whatever was collected (a series too short for
\* indicators included), stock_data has every derived column, each stored row
\* carries them, and get_stock_data, get_all_latest_data and get_oversold_stocks
\* all answer without an error.
C11_QueriesKeepShape ==
    pc \in {"idle", "done"} =>
        /\ DerivedCols \subseteq stock_data.cols
        /\ ~get_oversold_stocks(stock_data, "daily").error
        /\ ~get_all_latest_data(stock_data, "daily").error
        /\ \A s \in Watched :
              LET q == get_stock_data(stock_data, s, "daily", 0) IN
              ~q.error /\ \A i \in 1..Len(q.rows) : FullShape(q.rows[i])

\* C12: with the placeholder key configured, no entry point makes a network
\* call, writes a bar or writes a marker: the tables stay as created and the only
\* event of a run is the configuration error.
C12_PlaceholderKeyDoesNothing ==
    api_key = PlaceholderKey =>
        /\ stock_data = EmptyTable
        /\ data_updates = [s \in Symbols |-> NoMarker]
        /\ \A i \in 1..Len(log) : log[i].ev = "configuration error"

\* the number of events of kind ev for symbol s in the log of the running call
EventCount(ev, s) ==
    Cardinality({i \in 1..Len(log) : log[i].ev = ev /\ log[i].symbol = s})

\* C13: in a run, a symbol's marker is written once when its collection returns
\* true and not at all when it returns false or has not returned; the marker
\* write comes right after the completed bar write of the same symbol, sets that
\* symbol's marker to the current time and no other marker; every other step,
\* a failed bar write included, leaves all markers as they were.
C13_RunInvariant ==
    /\ \A i \in 1..Len(results) :
          EventCount("mark", results[i][1]) = IF results[i][2] THEN 1 ELSE 0
    /\ \A s \in Symbols :
          (\A i \in 1..Len(results) : results[i][1] # s) => EventCount("mark", s) = 0
C13_MarkStep ==
    LET s == symbols[idx]
        marked == pc = "mark" /\ log' = Append(log, Event("mark", s))
    IN /\ marked =>
            /\ data_updates' = [data_updates EXCEPT ![s] = now]
            /\ log[Len(log)] = Event("insert", s)
            /\ \A i \in 1..Len(df.rows) : df.rows[i] \in Range(stock_data.rows)
            /\ stock_data' = stock_data
            /\ results' = Append(results, <<s, TRUE>>)
       /\ ~marked => data_updates' = data_updates
       /\ (pc \in {"fetch", "insert", "rows", "mark"}
             /\ results' = Append(results, <<s, FALSE>>)) =>
            data_updates' = data_updates
C13_MarkerOnceAfterBars == []C13_RunInvariant /\ [][C13_MarkStep]_vars

\* a batch returned with one symbol collected and marked now, and another whose
\* bar write failed and whose marker is still absent
C13_Witness ==
    /\ pc = "done"
    /\ outcome = "returned"
    /\ \E i \in 1..Len(results), j \in 1..Len(results) :
          /\ results[i][2]
          /\ data_updates[results[i][1]] = now
          /\ ~results[j][2]
          /\ EventCount("insert_failed", results[j][1]) = 1
          /\ data_updates[results[j][1]] = NoMarker

\* the place of symbol s in the list of the running call (0 when it is not in it)
Position(s) ==
    IF s \in Range(symbols) THEN CHOOSE k \in 1..Len(symbols) : symbols[k] = s ELSE 0

C15_SleepAfterEveryCall ==
    /\ \A i \in 1..Len(log) :
          log[i].ev = "get" =>
             (i < Len(log) /\ log[i + 1] = Event("sleep", log[i].symbol))
    /\ \A i \in 1..Len(log), j \in 1..Len(log) :
          (i < j /\ log[i].ev = "get" /\ log[j].ev = "get") =>
             \E k \in (i + 1)..(j - 1) : log[k].ev = "sleep"

\* C16: every committed change of stock_data, which is what a concurrent reader
\* can come to see, takes the table from its prior contents to the complete new
\* contents (never to an empty table or a part of the frame), and a write that
\* failed has changed nothing.
C16_WriteStep ==
    /\ stock_data' # stock_data =>
          /\ stock_data'.rows # <<>>
          /\ \A i \in 1..Len(df.rows) : df.rows[i] \in Range(stock_data'.rows)
          /\ log' = Append(log, Event("insert", symbols[idx]))
    /\ (pc \in {"insert", "rows"}
          /\ log' = Append(log, Event("insert_failed", symbols[idx]))) =>
          log[Len(log)].ev # "replace"
C16_PriorOrFullyReplaced == [][C16_WriteStep]_vars

\* C17: stock_data never holds two rows with the same symbol, datetime and
\* timeframe, whatever the provider returned.
C17_UniqueKey ==
    \A i \in 1..Len(stock_data.rows), j \in 1..Len(stock_data.rows) :
        (/\ stock_data.rows[i].symbol = stock_data.rows[j].symbol
         /\ stock_data.rows[i].datetime = stock_data.rows[j].datetime
         /\ stock_data.rows[i].timeframe = stock_data.rows[j].timeframe) => i = j

\* C18: when no store write fails, between runs every watched symbol that has a
\* staleness marker has rows in stock_data.
C18_MarkedSymbolsHaveBars ==
    pc \in {"idle", "done"} =>
        \A s \in Watched :
            data_updates[s] # NoMarker => RowsOf(stock_data, s) # <<>>

\* C19: for every watched symbol that has stored bars, the row the dashboard
\* takes its latest values from is the row with the greatest datetime among the
\* rows load_stock_data returned.
C19_LatestIsNewestBar ==
    \A s \in Watched :
        LET d == load_stock_data(stock_data, s) IN
        d # <<>> => \A i \in 1..Len(d) : d[i].datetime <= iloc_last(d).datetime

====
